---- MODULE Spec2Model ----
(***************************************************************************)
(* Model of mindflow's ResolverIndex (src/mindflow/resolve/                *)
(* resolver_index.py): the persisted path -> {index, hash} document under  *)
(* .mf/index.json, update_file_index, generate_all_indexes and             *)
(* get_sub_index, stepped at every point where the code touches the file   *)
(* system or the model, so that the environment (file edits) interleaves.  *)
(***************************************************************************)
EXTENDS Integers, Sequences, FiniteSets, TLC

(***************************************************************************)
(* Bounds of the model.                                                    *)
(***************************************************************************)
\* update_file_index / get_sub_index calls of one behaviour
MaxCalls == 2
\* generate_all_indexes calls of one behaviour
MaxBatches == 1
\* edits of the repository's files during one behaviour
MaxMutations == 1
\* length of a list of files passed to an operation
MaxFiles == 3

(***************************************************************************)
(* Program constants.                                                      *)
(***************************************************************************)
MAX_INDEX_RETRIES == 3
\* def log(self, message): positional parameters besides self
LogParams == 1
\* self.log("Index generated for file: ", file_path): positional arguments
LogCallArgs == 2

(***************************************************************************)
(* The universe: file paths (in sort order), file bytes.                   *)
(***************************************************************************)
PathOrder == <<"A", "B", "C">>
Paths == {PathOrder[k] : k \in 1..Len(PathOrder)}
\* The paths of the smaller repository the single calls are run on.
FewPaths == {"A", "B"}

\* A file's bytes: "XFF" is a byte that is no valid UTF-8, "NL" a line feed.
Bytes1 == <<"a", "NL", "b">>
Bytes2 == <<"XFF", "b", "NL">>
Contents == {Bytes1, Bytes2}

\* A file of the file system: there with its data, or not there.
File(data) == [exists |-> TRUE, data |-> data]
NoFile == [exists |-> FALSE, data |-> <<>>]

\* Python's None, and the value of a path variable that is not bound.
None == [none |-> TRUE]
NoPath == "-"

\* How a call ended: a normal return or the exception it raised; Pending
\* while there is no such call or it has not ended.
Pending == "pending"
Returned == "returned"
KeyError == "KeyError"
TypeError == "TypeError"
FileNotFoundError == "FileNotFoundError"
IndexGenerationFailure == "IndexGenerationFailure"
JSONDecodeError == "JSONDecodeError"

(***************************************************************************)
(* Pure functions.                                                         *)
(***************************************************************************)
\* hashlib.sha256(file_bytes).hexdigest(): a function of the raw bytes,
\* injective on the contents of the model (collision resistance).
Sha256(bytes) == [sha256 |-> bytes]

\* open(file, encoding="utf-8", errors="ignore").read(): undecodable bytes
\* are dropped.
Decode(bytes) == SelectSeq(bytes, LAMBDA b : b # "XFF")

IsSpace(ch) == ch \in {"NL", "SP"}

RECURSIVE LStrip(_)
LStrip(s) == IF s # <<>> /\ IsSpace(Head(s)) THEN LStrip(Tail(s)) ELSE s

RECURSIVE RStrip(_)
RStrip(s) ==
    IF s # <<>> /\ IsSpace(s[Len(s)]) THEN RStrip(SubSeq(s, 1, Len(s) - 1)) ELSE s

\* str.strip()
Strip(s) == RStrip(LStrip(s))

\* str.replace("\n", " ")
ReplaceNewlines(s) == [k \in 1..Len(s) |-> IF s[k] = "NL" THEN "SP" ELSE s[k]]

\* The prompt get_file_index_description builds from a file's bytes.
Prompt(bytes) == [prompt |-> ReplaceNewlines(Strip(Decode(bytes)))]

\* What get_response returns when it returns: a summary of the prompt.
Response(p) == [summary |-> p.prompt]

\* An index entry as update_file_index builds it.
Entry(description, hash) == [index |-> description, hash |-> hash]

\* json.dump(index_json, file, indent=2, sort_keys=True): the file holds the
\* key/value pairs in sorted key order.
JsonDump(doc) ==
    LET keys == SelectSeq(PathOrder, LAMBDA p : p \in DOMAIN doc)
    IN  [k \in 1..Len(keys) |-> <<keys[k], doc[keys[k]]>>]

\* json.load(f): the mapping of the pairs in the file.
JsonLoad(text) ==
    LET keys == {text[k][1] : k \in 1..Len(text)}
    IN  [p \in keys |-> text[CHOOSE k \in 1..Len(text) : text[k][1] = p][2]]

\* The empty document, {} in the code.
EmptyDoc == [p \in {} |-> None]

(***************************************************************************)
(* State.                                                                  *)
(***************************************************************************)
VARIABLES
    fs,                     \* the files at the paths in use: a File or NoFile
    mfDir,                  \* whether <git root>/.mf exists
    indexFile,              \* <git root>/.mf/index.json: its text or NoFile
    pc,                     \* where the running operation stands
    caller,                 \* who called update_file_index: "top" or "gai"
    file_path,              \* update_file_index: its locals
    force_reindex,
    index_json,
    file_hash,
    prompt,                 \* _attempt_index_generation: its argument
    tries,                  \* ... and the failed passes of its loop
    index_description,
    raised,                 \* how the last update_file_index ended
    files,                  \* generate_all_indexes: its arguments
    gai_force,
    ignore_index_failures,
    next_file,              \* ... and the position of its for loop
    gai_raised,             \* how the last generate_all_indexes ended
    sub_files,              \* get_sub_index: its argument
    sub_index,              \* ... and its last result
    sub_made_dir,           \* ... and whether its _get_index_json made .mf
    peer,                   \* a second process in update_file_index: its
                            \* position and locals
    save_pc,                \* _write_index_json called on its own: its position
    save_doc,               \* ... its argument
    save_old,               \* ... and the index file as it found it
    loaded,                 \* what the last _get_index_json of a reader gave
    calls,                  \* top-level operations started so far
    mutations,              \* edits of the files so far
    responses,              \* get_response calls of this update_file_index
    start,                  \* the file system as this update_file_index found
                            \* it, and whether its file was edited since
    hist                    \* the update_file_index calls that ended, in order:
                            \* those of the running or last batch, or the last
                            \* two single calls

env    == <<fs, mfDir, indexFile>>
ufiLoc == <<file_path, force_reindex, index_json, file_hash, prompt, tries,
            index_description>>
gaiLoc == <<files, gai_force, ignore_index_failures, next_file, gai_raised>>
gsiLoc == <<sub_files, sub_index, sub_made_dir>>
concLoc == <<peer, save_pc, save_doc, save_old, loaded>>
ghost  == <<calls, mutations, responses, start, hist>>
vars   == <<env, pc, caller, ufiLoc, raised, gaiLoc, gsiLoc, concLoc, ghost>>

(***************************************************************************)
(* The initial states: any files, and an index file that is missing or     *)
(* holds entries an earlier run wrote (a summary and the digest of the     *)
(* bytes it was generated from); no operation is running.                  *)
(***************************************************************************)
EntryOf(bytes) == Entry(Response(Prompt(bytes)), Sha256(bytes))

DocsOver(P) == UNION {[S -> {EntryOf(c) : c \in Contents}] : S \in SUBSET P}

NoRecord == [path |-> NoPath]

\* The second process entering update_file_index(p, force): `entry` is the
\* entry it assigns to its path, `overlap` whether the first process stood
\* between its load and its save when this one saved, `during` the calls
\* made up to then.
PeerCalled(p, force) ==
    [pc |-> "load", path |-> p, force |-> force, index_json |-> EmptyDoc,
     entry |-> None, outcome |-> Pending, overlap |-> FALSE, during |-> 0]

PeerNotCalled == [PeerCalled(NoPath, FALSE) EXCEPT !.pc = "idle"]

\* No reader has loaded the index file yet.
NoLoad == [at |-> "none"]

InitLocals ==
    /\ pc = "idle"
    /\ caller = "top"
    /\ file_path = NoPath
    /\ force_reindex = FALSE
    /\ index_json = EmptyDoc
    /\ file_hash = None
    /\ prompt = None
    /\ tries = 0
    /\ index_description = None
    /\ raised = Pending
    /\ files = <<>>
    /\ gai_force = FALSE
    /\ ignore_index_failures = FALSE
    /\ next_file = 0
    /\ gai_raised = Pending
    /\ sub_files = <<>>
    /\ sub_index = EmptyDoc
    /\ sub_made_dir = FALSE
    /\ peer = PeerNotCalled
    /\ save_pc = "idle"
    /\ save_doc = EmptyDoc
    /\ save_old = NoFile
    /\ loaded = NoLoad
    /\ calls = 0
    /\ mutations = 0
    /\ responses = 0
    /\ start = NoRecord
    /\ hist = <<>>

InitOver(P) ==
    /\ fs \in [P -> {File(c) : c \in Contents} \cup {NoFile}]
    /\ \/ mfDir = FALSE /\ indexFile = NoFile
       \/ mfDir = TRUE
          /\ indexFile \in {NoFile} \cup {File(JsonDump(d)) : d \in DocsOver(P)}
    /\ InitLocals

Init == InitOver(Paths)

\* The repository of the batches: every file is missing or holds Bytes1,
\* so that an entry of the index is missing, fresh (Bytes1) or stale (Bytes2).
InitBatch == Init /\ \A p \in Paths : fs[p] \in {File(Bytes1), NoFile}

InitFew == InitOver(FewPaths)

\* The repository of the two writers and of the lone _write_index_json:
\* both files are there and hold Bytes1.
InitPair == InitFew /\ \A p \in FewPaths : fs[p] = File(Bytes1)

(***************************************************************************)
(* The environment: somebody edits, creates or removes a file.             *)
(***************************************************************************)
Mutate(p, c) ==
    /\ mutations < MaxMutations
    /\ fs[p] # c
    /\ fs' = [fs EXCEPT ![p] = c]
    /\ mutations' = mutations + 1
    /\ start' = IF p = file_path THEN [start EXCEPT !.edited = TRUE] ELSE start
    /\ UNCHANGED <<mfDir, indexFile, pc, caller, ufiLoc, raised, gaiLoc, gsiLoc, concLoc,
                   calls, responses, hist>>

MutateFile ==
    \E p \in DOMAIN fs, c \in {File(b) : b \in Contents} \cup {NoFile} : Mutate(p, c)

(***************************************************************************)
(* _get_index_json                                                         *)
(***************************************************************************)
\* A _get_index_json that never creates the directory.
MakeDir_Never(exists) == exists

\* if not os.path.exists(<.mf>): os.mkdir(<.mf>): whether .mf exists after it.
MakeDir(exists) == IF ~exists THEN TRUE ELSE exists

\* The document a reader finds in index.json: {} when it does not exist
\* (the except FileNotFoundError branch).
DocOf(file) == IF file.exists THEN JsonLoad(file.data) ELSE EmptyDoc

GetIndexJson == DocOf(indexFile)

(***************************************************************************)
(* update_file_index                                                       *)
(***************************************************************************)
\* The record of one update_file_index call, kept when it ends: `bytes` is
\* the file as the call found it, `read` the file as
\* get_file_index_description read it, `stored` the entry the call assigned
\* to index_json[file_path], if it got there.
CallRecord(out, after, nresp, nfail) ==
    [path      |-> file_path,
     force     |-> force_reindex,
     outcome   |-> out,
     responses |-> nresp,
     failures  |-> nfail,
     before    |-> start.doc,
     after     |-> DocOf(after),
     bytes     |-> start.bytes,
     edited    |-> start.edited,
     read      |-> start.read,
     stored    |-> IF pc = "ufi_store"
                   THEN Entry(index_description, file_hash)
                   ELSE None]

\* An except clause that logs and goes on whatever the flag says.
Propagates_FlagIgnored(out, ignore) ==
    /\ out # Returned
    /\ out # IndexGenerationFailure

\* An except clause that catches every exception (except Exception).
Propagates_CatchAll(out, ignore) ==
    /\ out # Returned
    /\ ~ignore

\* generate_all_indexes' except clause: which endings of update_file_index
\* leave the batch.
Propagates(out, ignore) ==
    /\ out # Returned
    /\ ~(out = IndexGenerationFailure /\ ignore)

\* The last record of a history, as a history.
LastOf(h) == IF h = <<>> THEN h ELSE <<h[Len(h)]>>

\* update_file_index is entered for path p.
Enter(p, force, from) ==
    /\ pc' = "ufi_load"
    /\ caller' = from
    /\ file_path' = p
    /\ force_reindex' = force
    /\ responses' = 0
    /\ start' = [doc    |-> GetIndexJson,
                 bytes  |-> fs[p],
                 edited |-> FALSE,
                 read   |-> NoFile]
    /\ raised' = Pending
    /\ hist' = IF from = "top" THEN LastOf(hist) ELSE hist
    /\ UNCHANGED <<env, index_json, file_hash, prompt, tries, index_description,
                   gsiLoc, concLoc, mutations>>

\* update_file_index ends with `out` (a return or an exception), the index
\* file then holding `after`: its locals die, and control is back in the
\* caller, for generate_all_indexes in its try statement.
Exit(out, after, nresp, nfail) ==
    /\ raised' = out
    /\ hist' = Append(hist, CallRecord(out, after, nresp, nfail))
    /\ responses' = 0
    /\ tries' = 0
    /\ file_path' = NoPath
    /\ force_reindex' = FALSE
    /\ index_json' = EmptyDoc
    /\ file_hash' = None
    /\ prompt' = None
    /\ index_description' = None
    /\ start' = NoRecord
    /\ IF caller = "top"
       THEN /\ pc' = "idle"
            /\ UNCHANGED gaiLoc
       ELSE IF Propagates(out, ignore_index_failures)
       THEN /\ pc' = "gai_done"
            /\ gai_raised' = out
            /\ UNCHANGED <<files, gai_force, ignore_index_failures, next_file>>
       ELSE /\ pc' = "gai_loop"
            /\ next_file' = next_file + 1
            /\ UNCHANGED <<files, gai_force, ignore_index_failures, gai_raised>>
    /\ UNCHANGED <<caller, gsiLoc, concLoc, calls, mutations>>

CallUpdateFileIndex ==
    \E p \in DOMAIN fs, force \in BOOLEAN :
        /\ pc = "idle"
        /\ calls < MaxCalls
        /\ calls' = calls + 1
        /\ Enter(p, force, "top")
        /\ UNCHANGED gaiLoc

\* index_json = self._get_index_json()
UfiLoad ==
    /\ pc = "ufi_load"
    /\ mfDir' = MakeDir(mfDir)
    /\ index_json' = GetIndexJson
    /\ pc' = "ufi_hash"
    /\ UNCHANGED <<fs, indexFile, caller, file_path, force_reindex, file_hash,
                   prompt, tries, index_description, raised, gaiLoc, gsiLoc, concLoc, ghost>>

\* The if statement of update_file_index: "reindex", "hit" (the early
\* return) or the exception the subscript raises.
ShouldReindex(doc, path, hash, force) ==
    IF force THEN "reindex"
    ELSE IF path \notin DOMAIN doc THEN KeyError
    ELSE IF doc[path].hash # hash THEN "reindex"
    ELSE "hit"

\* file_hash = self.get_file_hash(file_path), and the if statement
UfiHash ==
    /\ pc = "ufi_hash"
    /\ IF ~fs[file_path].exists
       THEN /\ Exit(FileNotFoundError, indexFile, responses, tries)
            /\ UNCHANGED env
       ELSE LET h == Sha256(fs[file_path].data)
                d == ShouldReindex(index_json, file_path, h, force_reindex)
            IN  IF d = "reindex"
                THEN /\ file_hash' = h
                     /\ pc' = "ufi_read"
                     /\ UNCHANGED <<env, caller, file_path, force_reindex,
                                    index_json, prompt, tries, index_description,
                                    raised, gaiLoc, gsiLoc, concLoc, ghost>>
                ELSE /\ Exit(IF d = "hit" THEN Returned ELSE d, indexFile,
                             responses, tries)
                     /\ UNCHANGED env

\* get_file_index_description: read the file and build the prompt
UfiRead ==
    /\ pc = "ufi_read"
    /\ IF ~fs[file_path].exists
       THEN /\ Exit(FileNotFoundError, indexFile, responses, tries)
            /\ UNCHANGED env
       ELSE /\ prompt' = Prompt(fs[file_path].data)
            /\ tries' = 0
            /\ pc' = "ufi_generate"
            /\ start' = [start EXCEPT !.read = fs[file_path]]
            /\ UNCHANGED <<env, caller, file_path, force_reindex, index_json,
                           file_hash, index_description, raised, gaiLoc, gsiLoc, concLoc,
                           calls, mutations, responses, hist>>

\* A loop that tries until get_response returns (while True).
HasNextTry_Unbounded(failed) == failed >= 0

\* A loop that runs one pass too many.
HasNextTry_OneMore(failed) == failed <= MAX_INDEX_RETRIES

\* _attempt_index_generation: whether the for loop has a pass left after
\* `failed` passes that raised.
HasNextTry(failed) == failed < MAX_INDEX_RETRIES

\* One pass of the loop in which get_response returns.
GetResponseReturns ==
    /\ pc = "ufi_generate"
    /\ HasNextTry(tries)
    /\ responses' = responses + 1
    /\ index_description' = Response(prompt)
    /\ pc' = "ufi_store"
    /\ UNCHANGED <<env, caller, file_path, force_reindex, index_json, file_hash,
                   prompt, tries, raised, gaiLoc, gsiLoc, concLoc, calls, mutations,
                   start, hist>>

\* A generator that, out of passes, leaves an entry without a summary in
\* the index file before it raises.
GetResponseRaises_StoresPlaceholder ==
    /\ pc = "ufi_generate"
    /\ HasNextTry(tries)
    /\ IF HasNextTry(tries + 1)
       THEN /\ responses' = responses + 1
            /\ tries' = tries + 1
            /\ UNCHANGED <<env, pc, caller, file_path, force_reindex, index_json,
                           file_hash, prompt, index_description, raised, gaiLoc,
                           gsiLoc, concLoc, calls, mutations, start, hist>>
       ELSE LET doc == [p \in DOMAIN index_json \cup {file_path} |->
                           IF p = file_path THEN Entry(None, file_hash)
                                            ELSE index_json[p]]
            IN  /\ indexFile' = File(JsonDump(doc))
                /\ Exit(IndexGenerationFailure, File(JsonDump(doc)),
                        responses + 1, tries + 1)
                /\ UNCHANGED <<fs, mfDir>>

\* One pass of the loop in which get_response raises: the failure is
\* swallowed, and after the last pass IndexGenerationFailure is raised.
GetResponseRaises ==
    /\ pc = "ufi_generate"
    /\ HasNextTry(tries)
    /\ IF HasNextTry(tries + 1)
       THEN /\ responses' = responses + 1
            /\ tries' = tries + 1
            /\ UNCHANGED <<env, pc, caller, file_path, force_reindex, index_json,
                           file_hash, prompt, index_description, raised, gaiLoc,
                           gsiLoc, concLoc, calls, mutations, start, hist>>
       ELSE /\ Exit(IndexGenerationFailure, indexFile, responses + 1, tries + 1)
            /\ UNCHANGED env

\* self.log(...) called with n positional arguments raises TypeError unless
\* n is the number of its parameters.
LogRaises(n) == n # LogParams

\* An update that saves, before it logs, a document that holds the new
\* entry alone.
UfiStore_KeepsOnlyNewEntry ==
    /\ pc = "ufi_store"
    /\ LET doc == [p \in {file_path} |-> Entry(index_description, file_hash)]
       IN  /\ indexFile' = File(JsonDump(doc))
           /\ Exit(IF LogRaises(LogCallArgs) THEN TypeError ELSE Returned,
                   File(JsonDump(doc)), responses, tries)
           /\ UNCHANGED <<fs, mfDir>>

\* index_json[file_path] = {...}; self.log(...); self._write_index_json(index_json)
UfiStore ==
    /\ pc = "ufi_store"
    /\ LET doc == [p \in DOMAIN index_json \cup {file_path} |->
                      IF p = file_path THEN Entry(index_description, file_hash)
                                       ELSE index_json[p]]
       IN  IF LogRaises(LogCallArgs)
           THEN /\ Exit(TypeError, indexFile, responses, tries)
                /\ UNCHANGED env
           ELSE /\ indexFile' = File(JsonDump(doc))
                /\ Exit(Returned, File(JsonDump(doc)), responses, tries)
                /\ UNCHANGED <<fs, mfDir>>

(***************************************************************************)
(* generate_all_indexes                                                    *)
(***************************************************************************)
RECURSIVE SeqsUpTo(_, _)
SeqsUpTo(S, n) ==
    IF n = 0 THEN {<<>>}
    ELSE LET shorter == SeqsUpTo(S, n - 1)
         IN  shorter \cup {Append(q, x) : q \in shorter, x \in S}

FileLists == SeqsUpTo(DOMAIN fs, MaxFiles)

CallGenerateAllIndexes ==
    \E fl \in FileLists, force \in BOOLEAN, ignore \in BOOLEAN :
        /\ pc = "idle"
        /\ calls < MaxBatches
        /\ calls' = calls + 1
        /\ files' = fl
        /\ gai_force' = force
        /\ ignore_index_failures' = ignore
        /\ next_file' = 1
        /\ gai_raised' = Pending
        /\ pc' = "gai_loop"
        /\ UNCHANGED <<env, caller, ufiLoc, raised, gsiLoc, concLoc, mutations, responses,
                       start, hist>>

\* A loop that passes over a path it has met before in the list.
GaiLoop_SkipsDuplicates ==
    /\ pc = "gai_loop"
    /\ IF next_file > Len(files)
       THEN /\ pc' = "gai_done"
            /\ gai_raised' = Returned
            /\ UNCHANGED <<env, caller, ufiLoc, raised, files, gai_force,
                           ignore_index_failures, next_file, gsiLoc, concLoc, ghost>>
       ELSE IF \E j \in 1..(next_file - 1) : files[j] = files[next_file]
       THEN /\ next_file' = next_file + 1
            /\ UNCHANGED <<env, pc, caller, ufiLoc, raised, files, gai_force,
                           ignore_index_failures, gai_raised, gsiLoc, concLoc, ghost>>
       ELSE /\ Enter(files[next_file], gai_force, "gai")
            /\ UNCHANGED <<gaiLoc, calls>>

\* for filepath in files: the next element, or the end of the loop
GaiLoop ==
    /\ pc = "gai_loop"
    /\ IF next_file <= Len(files)
       THEN /\ Enter(files[next_file], gai_force, "gai")
            /\ UNCHANGED <<gaiLoc, calls>>
       ELSE /\ pc' = "gai_done"
            /\ gai_raised' = Returned
            /\ UNCHANGED <<env, caller, ufiLoc, raised, files, gai_force,
                           ignore_index_failures, next_file, gsiLoc, concLoc, ghost>>

\* generate_all_indexes has returned or raised: control is back in its
\* caller, and nothing of the call is left but the files.
GaiReturn ==
    /\ pc = "gai_done"
    /\ pc' = "idle"
    /\ caller' = "top"
    /\ raised' = Pending
    /\ files' = <<>>
    /\ gai_force' = FALSE
    /\ ignore_index_failures' = FALSE
    /\ next_file' = 0
    /\ gai_raised' = Pending
    /\ hist' = <<>>
    /\ UNCHANGED <<env, ufiLoc, gsiLoc, concLoc, calls, mutations, responses, start>>

(***************************************************************************)
(* get_sub_index                                                           *)
(***************************************************************************)
\* A comprehension that skips the files the index has no key for.
SubIndex_OmitMissing(doc, fl) ==
    [f \in {fl[k] : k \in 1..Len(fl)} \cap DOMAIN doc |-> doc[f]]

\* A comprehension that keeps the summary of an entry only.
SubIndex_SummaryOnly(doc, fl) ==
    [f \in {fl[k] : k \in 1..Len(fl)} |->
        IF f \in DOMAIN doc THEN doc[f].index ELSE None]

\* {file: index_json.get(file, None) for file in files}
SubIndex(doc, fl) ==
    [f \in {fl[k] : k \in 1..Len(fl)} |-> IF f \in DOMAIN doc THEN doc[f] ELSE None]

GetSubIndex ==
    \E fl \in FileLists :
        /\ pc = "idle"
        /\ calls < MaxCalls
        /\ calls' = calls + 1
        /\ mfDir' = MakeDir(mfDir)
        /\ sub_made_dir' = (~mfDir /\ MakeDir(mfDir))
        /\ sub_files' = fl
        /\ sub_index' = SubIndex(GetIndexJson, fl)
        /\ UNCHANGED <<fs, indexFile, pc, caller, ufiLoc, raised, gaiLoc,
                       concLoc, mutations, responses, start, hist>>

(***************************************************************************)
(* A second process that runs update_file_index on the same repository,    *)
(* in three steps: its load, its hashing and generation, its save.         *)
(***************************************************************************)
PeerEnds(out) == [peer EXCEPT !.pc = "idle", !.outcome = out]

CallPeerUpdateFileIndex ==
    \E p \in DOMAIN fs, force \in BOOLEAN :
        /\ peer.pc = "idle"
        /\ calls < MaxCalls
        /\ calls' = calls + 1
        /\ peer' = PeerCalled(p, force)
        /\ UNCHANGED <<env, pc, caller, ufiLoc, raised, gaiLoc, gsiLoc, save_pc,
                       save_doc, save_old, loaded, mutations, responses, start,
                       hist>>

\* index_json = self._get_index_json()
PeerLoad ==
    /\ peer.pc = "load"
    /\ mfDir' = MakeDir(mfDir)
    /\ peer' = [peer EXCEPT !.pc = "generate", !.index_json = GetIndexJson]
    /\ UNCHANGED <<fs, indexFile, pc, caller, ufiLoc, raised, gaiLoc, gsiLoc,
                   save_pc, save_doc, save_old, loaded, ghost>>

\* get_file_hash, the if statement, get_file_index_description and
\* _attempt_index_generation, whose get_response returns within the passes
\* of the loop (ok) or raises in each of them.
PeerGenerate ==
    /\ peer.pc = "generate"
    /\ \E ok \in BOOLEAN :
        LET file == fs[peer.path]
            d == ShouldReindex(peer.index_json, peer.path, Sha256(file.data),
                               peer.force)
        IN  peer' = IF ~file.exists THEN PeerEnds(FileNotFoundError)
                    ELSE IF d = "hit" THEN PeerEnds(Returned)
                    ELSE IF d # "reindex" THEN PeerEnds(d)
                    ELSE IF ~ok THEN PeerEnds(IndexGenerationFailure)
                    ELSE [peer EXCEPT !.pc = "store",
                                      !.entry = Entry(Response(Prompt(file.data)),
                                                      Sha256(file.data))]
    /\ UNCHANGED <<env, pc, caller, ufiLoc, raised, gaiLoc, gsiLoc, save_pc,
                   save_doc, save_old, loaded, ghost>>

\* index_json[file_path] = {...}; self.log(...); self._write_index_json(index_json)
PeerStore ==
    /\ peer.pc = "store"
    /\ LET doc == [p \in DOMAIN peer.index_json \cup {peer.path} |->
                      IF p = peer.path THEN peer.entry ELSE peer.index_json[p]]
           seen == [peer EXCEPT !.overlap = pc \in {"ufi_hash", "ufi_read",
                                                    "ufi_generate", "ufi_store"},
                                !.during = calls]
       IN  IF LogRaises(LogCallArgs)
           THEN /\ peer' = [seen EXCEPT !.pc = "idle", !.outcome = TypeError]
                /\ UNCHANGED indexFile
           ELSE /\ peer' = [seen EXCEPT !.pc = "idle", !.outcome = Returned]
                /\ indexFile' = File(JsonDump(doc))
    /\ UNCHANGED <<fs, mfDir, pc, caller, ufiLoc, raised, gaiLoc, gsiLoc, save_pc,
                   save_doc, save_old, loaded, ghost>>

PeerSteps == PeerLoad \/ PeerGenerate \/ PeerStore

(***************************************************************************)
(* _write_index_json called on its own, step by step, while a reader loads *)
(* the index file with _get_index_json.  The text of the file is the       *)
(* sequence of the key/value pairs written; between open(path, "w") and    *)
(* the end of json.dump it is a proper prefix of a JSON text.              *)
(***************************************************************************)
PartialFile(data) == [exists |-> TRUE, data |-> data, partial |-> TRUE]

IsPartial(file) == "partial" \in DOMAIN file

\* _get_index_json: json.load raises on a text that is cut short, and only
\* FileNotFoundError is caught.
Load(file) ==
    IF IsPartial(file) THEN [raised |-> JSONDecodeError, doc |-> EmptyDoc]
    ELSE [raised |-> Returned, doc |-> DocOf(file)]

CallWriteIndexJson ==
    \E doc \in DocsOver(DOMAIN fs) :
        /\ pc = "idle"
        /\ save_pc \notin {"open", "dump"}
        /\ calls < MaxCalls
        /\ calls' = calls + 1
        /\ save_pc' = "open"
        /\ save_doc' = doc
        /\ save_old' = indexFile
        /\ loaded' = NoLoad
        /\ UNCHANGED <<env, pc, caller, ufiLoc, raised, gaiLoc, gsiLoc, peer,
                       mutations, responses, start, hist>>

\* with open(<.mf/index.json>, "w") as file: the file is created or cut to
\* no bytes; FileNotFoundError when the directory is missing.
WriteOpen ==
    /\ save_pc = "open"
    /\ IF mfDir
       THEN /\ indexFile' = PartialFile(<<>>)
            /\ save_pc' = "dump"
       ELSE /\ save_pc' = "failed"
            /\ UNCHANGED indexFile
    /\ UNCHANGED <<fs, mfDir, pc, caller, ufiLoc, raised, gaiLoc, gsiLoc, peer,
                   save_doc, save_old, loaded, ghost>>

\* json.dump(index_json, file, indent=2, sort_keys=True): the next pair
\* reaches the file.
WriteDump ==
    /\ save_pc = "dump"
    /\ Len(indexFile.data) < Len(JsonDump(save_doc))
    /\ indexFile' = PartialFile(Append(indexFile.data,
                                       JsonDump(save_doc)[Len(indexFile.data) + 1]))
    /\ UNCHANGED <<fs, mfDir, pc, caller, ufiLoc, raised, gaiLoc, gsiLoc, peer,
                   save_pc, save_doc, save_old, loaded, ghost>>

\* The end of json.dump and of the with statement: the text is complete.
WriteClose ==
    /\ save_pc = "dump"
    /\ Len(indexFile.data) = Len(JsonDump(save_doc))
    /\ indexFile' = File(JsonDump(save_doc))
    /\ save_pc' = "closed"
    /\ UNCHANGED <<fs, mfDir, pc, caller, ufiLoc, raised, gaiLoc, gsiLoc, peer,
                   save_doc, save_old, loaded, ghost>>

\* A write of json.dump raises, or the process is stopped: the file stays
\* as far as it was written.
WriteFails ==
    /\ save_pc = "dump"
    /\ save_pc' = "failed"
    /\ UNCHANGED <<env, pc, caller, ufiLoc, raised, gaiLoc, gsiLoc, peer,
                   save_doc, save_old, loaded, ghost>>

\* A reader calls _get_index_json once a _write_index_json has begun.
ReaderLoads ==
    /\ save_pc # "idle"
    /\ mfDir' = MakeDir(mfDir)
    /\ loaded' = [at |-> save_pc, raised |-> Load(indexFile).raised,
                  doc |-> Load(indexFile).doc]
    /\ UNCHANGED <<fs, indexFile, pc, caller, ufiLoc, raised, gaiLoc, gsiLoc,
                   peer, save_pc, save_doc, save_old, ghost>>

(***************************************************************************)
(* Specifications: the caller makes single update_file_index calls, or     *)
(* generate_all_indexes calls, or get_sub_index calls, while the files of  *)
(* the repository are edited.                                              *)
(***************************************************************************)
UpdateSteps ==
    \/ UfiLoad
    \/ UfiHash
    \/ UfiRead
    \/ GetResponseReturns
    \/ GetResponseRaises
    \/ UfiStore

NextUpdate ==
    \/ MutateFile
    \/ CallUpdateFileIndex
    \/ UpdateSteps

NextBatch ==
    \/ CallGenerateAllIndexes
    \/ GaiLoop
    \/ GaiReturn
    \/ UpdateSteps

NextSub == GetSubIndex

SpecUpdate == InitFew /\ [][NextUpdate]_vars

SpecBatch == InitBatch /\ [][NextBatch]_vars

SpecSub == Init /\ [][NextSub]_vars

\* Two processes, each making update_file_index calls.
NextPair ==
    \/ CallUpdateFileIndex
    \/ UpdateSteps
    \/ CallPeerUpdateFileIndex
    \/ PeerSteps

SpecPair == InitPair /\ [][NextPair]_vars

\* The batches on the two-path repository, where every model call returns
\* or raises and every call that was made runs on to its end.
InitFewBatch == InitFew /\ \A p \in FewPaths : fs[p] \in {File(Bytes1), NoFile}

SpecBatchFair ==
    /\ InitFewBatch
    /\ [][NextBatch]_vars
    /\ WF_vars(GaiLoop \/ UpdateSteps)

\* One caller making update_file_index and get_sub_index calls.
NextFrame ==
    \/ CallUpdateFileIndex
    \/ UpdateSteps
    \/ GetSubIndex

SpecFrame == InitFew /\ [][NextFrame]_vars

\* _write_index_json calls and a reader.
NextSave ==
    \/ CallWriteIndexJson
    \/ WriteOpen
    \/ WriteDump
    \/ WriteClose
    \/ WriteFails
    \/ ReaderLoads

SpecSave == InitPair /\ [][NextSave]_vars

(***************************************************************************)
(* Properties of update_file_index, stated over the calls that ended.      *)
(***************************************************************************)
Ended == {hist[k] : k \in 1..Len(hist)}

\* The file of the call was there and was not edited while the call ran.
Quiet(r) == r.bytes.exists /\ ~r.edited

\* The entry a successful generation of the call stores.
NewEntry(r) == Entry(Response(Prompt(r.bytes.data)), Sha256(r.bytes.data))

\* The call found no matching entry for its path.
NotCached(r) ==
    \/ r.path \notin DOMAIN r.before
    \/ r.before[r.path].hash # Sha256(r.bytes.data)

\* C1: a call with force_reindex false on a path with no entry calls the
\* generator, ends normally or with IndexGenerationFailure, and, when the
\* generation succeeded, leaves an entry for the path in the index file.
C1_NoEntryTriggersGeneration ==
    \A r \in Ended :
        (~r.force /\ Quiet(r) /\ r.path \notin DOMAIN r.before)
        => /\ r.responses >= 1
           /\ r.outcome \in {Returned, IndexGenerationFailure}
           /\ r.outcome = Returned => r.path \in DOMAIN r.after

\* C2: of two calls in a row on the same unchanged, not yet indexed file,
\* with force_reindex false and no failing model call, the first makes one
\* model call, and the second makes none and leaves the index file as it was.
C2_Idempotence ==
    \A k \in 1..(Len(hist) - 1) :
        LET r1 == hist[k]
            r2 == hist[k + 1]
        IN  (/\ r1.path = r2.path
             /\ ~r1.force /\ ~r2.force
             /\ Quiet(r1) /\ Quiet(r2) /\ r1.bytes = r2.bytes
             /\ r1.failures = 0 /\ r2.failures = 0
             /\ NotCached(r1))
            => /\ r1.responses + r2.responses = 1
               /\ r2.responses = 0
               /\ r2.outcome = Returned
               /\ r2.after = r2.before

\* C3: when the file was edited between two calls on the same path (the
\* second with force_reindex false), the second call calls the generator
\* and, unless the generation failed, ends normally with the stored digest
\* of the path being the digest of the new bytes.
C3_ChangeDetection ==
    \A k \in 1..(Len(hist) - 1) :
        LET r1 == hist[k]
            r2 == hist[k + 1]
        IN  (/\ r1.path = r2.path
             /\ r1.outcome = Returned
             /\ ~r2.force
             /\ Quiet(r1) /\ Quiet(r2) /\ r1.bytes # r2.bytes)
            => /\ r2.responses >= 1
               /\ r2.outcome # IndexGenerationFailure
                  => /\ r2.outcome = Returned
                     /\ r2.path \in DOMAIN r2.after
                     /\ r2.after[r2.path].hash = Sha256(r2.bytes.data)

\* C4: a call with force_reindex true calls the generator whatever the
\* index holds for the path and, unless the generation failed, ends
\* normally with the new entry in the index file.
C4_ForceOverride ==
    \A r \in Ended :
        (r.force /\ Quiet(r))
        => /\ r.responses >= 1
           /\ r.outcome # IndexGenerationFailure
              => /\ r.outcome = Returned
                 /\ r.path \in DOMAIN r.after
                 /\ r.after[r.path] = NewEntry(r)

\* C5: the generator never makes more than MAX_INDEX_RETRIES model calls;
\* a call in which every model call raised ends with IndexGenerationFailure
\* after exactly MAX_INDEX_RETRIES of them, and IndexGenerationFailure is
\* raised in no other way.
C5_RetryBound ==
    /\ responses <= MAX_INDEX_RETRIES
    /\ pc = "ufi_generate" => tries < MAX_INDEX_RETRIES
    /\ \A r \in Ended :
        /\ r.responses <= MAX_INDEX_RETRIES
        /\ (r.responses >= 1 /\ r.failures = r.responses)
           => /\ r.outcome = IndexGenerationFailure
              /\ r.responses = MAX_INDEX_RETRIES
        /\ r.outcome = IndexGenerationFailure
           => /\ r.responses = MAX_INDEX_RETRIES
              /\ r.failures = MAX_INDEX_RETRIES

\* A call ended with IndexGenerationFailure after three failed model calls.
C5_Witness ==
    \E r \in Ended : r.outcome = IndexGenerationFailure /\ r.failures = 3

\* C6: a call whose model calls failed k < 3 times and then succeeded made
\* k + 1 model calls and ends normally with the entry of that summary in
\* the index file.
C6_RetrySuccess ==
    \A r \in Ended :
        (Quiet(r) /\ r.failures < MAX_INDEX_RETRIES /\ r.responses = r.failures + 1)
        => /\ r.outcome = Returned
           /\ r.path \in DOMAIN r.after
           /\ r.after[r.path] = NewEntry(r)

C12_FailureKeepsDocument ==
    \A r \in Ended :
        r.outcome = IndexGenerationFailure
        => /\ r.after = r.before
           /\ r.path \in DOMAIN r.after <=> r.path \in DOMAIN r.before
           /\ r.path \in DOMAIN r.before => r.after[r.path] = r.before[r.path]

\* A call on a path with a stale entry ended with IndexGenerationFailure.
C12_Witness ==
    \E r \in Ended :
        /\ r.outcome = IndexGenerationFailure
        /\ Quiet(r)
        /\ r.path \in DOMAIN r.before
        /\ r.before[r.path].hash # Sha256(r.bytes.data)

(***************************************************************************)
(* Properties of generate_all_indexes.                                     *)
(***************************************************************************)
\* generate_all_indexes has ended (returned or raised).
BatchEnded == pc = "gai_done"

\* C7: generate_all_indexes(["A", "B", "C"], ignore_index_failures=True) on
\* an empty index, where every model call for B raises and none for A or C
\* does, ends without an exception and with entries for exactly A and C in
\* the index file.
C7_PartialFailureBatch ==
    (/\ BatchEnded
     /\ files = <<"A", "B", "C">>
     /\ ignore_index_failures
     /\ \A p \in DOMAIN fs : fs[p].exists
     /\ hist[1].before = EmptyDoc
     /\ \A r \in Ended : r.failures = (IF r.path = "B" THEN r.responses ELSE 0))
    => /\ gai_raised = Returned
       /\ DOMAIN DocOf(indexFile) = {"A", "C"}

\* C15: once the generator has returned a summary to an update_file_index
\* call, the entry made of it is in the index file when the call ends, and
\* the load of the next call of the batch finds it there.
C15_WriteThrough ==
    \A k \in 1..Len(hist) :
        hist[k].stored # None
        => /\ hist[k].path \in DOMAIN hist[k].after
           /\ hist[k].after[hist[k].path] = hist[k].stored
           /\ k < Len(hist) => hist[k + 1].before = hist[k].after
           /\ k = Len(hist) => DocOf(indexFile) = hist[k].after

\* C8: with ignore_index_failures false, the update_file_index call that
\* raises IndexGenerationFailure is the last one of the batch: the batch
\* ends there with that exception, the calls made are those for the files
\* up to it in list order, and the entries of the files before it that ended
\* normally are in the index file as those calls left them.
C8_AbortWithoutRollback ==
    \A k \in 1..Len(hist) :
        (pc # "idle" /\ ~ignore_index_failures
         /\ hist[k].outcome = IndexGenerationFailure)
        => /\ k = Len(hist)
           /\ BatchEnded
           /\ gai_raised = IndexGenerationFailure
           /\ next_file = k
           /\ \A j \in 1..k : hist[j].path = files[j]
           /\ \A j \in 1..(k - 1) :
                hist[j].outcome = Returned
                => /\ files[j] \in DOMAIN DocOf(indexFile)
                   /\ DocOf(indexFile)[files[j]] = hist[j].after[files[j]]

\* A batch was aborted by its third file after two files ended normally.
C8_Witness ==
    /\ BatchEnded
    /\ ~ignore_index_failures
    /\ gai_raised = IndexGenerationFailure
    /\ Len(hist) = 3
    /\ Len(files) = 3
    /\ hist[1].outcome = Returned
    /\ hist[2].outcome = Returned
    /\ hist[1].path # hist[2].path

\* C13: an update_file_index call of a batch that cannot read its file
\* makes no model call, leaves the index file as it was and ends the batch
\* with FileNotFoundError, whatever ignore_index_failures says: it is the
\* last call of the batch.
C13_ReadFailurePropagates ==
    \A k \in 1..Len(hist) :
        (pc # "idle" /\ hist[k].outcome = FileNotFoundError)
        => /\ hist[k].responses = 0
           /\ hist[k].failures = 0
           /\ hist[k].after = hist[k].before
           /\ DocOf(indexFile) = hist[k].before
           /\ k = Len(hist)
           /\ BatchEnded
           /\ gai_raised = FileNotFoundError
           /\ next_file = k

\* A batch that ignores index failures was ended by a missing file, with
\* files of its list left unprocessed.
C13_Witness ==
    /\ BatchEnded
    /\ ignore_index_failures
    /\ gai_raised = FileNotFoundError
    /\ Len(hist) = 2
    /\ Len(files) = 3
    /\ ~hist[2].bytes.exists

(***************************************************************************)
(* Properties of get_sub_index.                                            *)
(***************************************************************************)
Requested == {sub_files[k] : k \in 1..Len(sub_files)}

\* C9: the keys of the mapping get_sub_index returns are exactly the
\* requested paths, and a path is mapped to None exactly when the index has
\* no entry for it.
C9_SubIndexComplete ==
    calls > 0
    => /\ DOMAIN sub_index = Requested
       /\ \A f \in Requested :
            (f \notin DOMAIN DocOf(indexFile)) <=> (sub_index[f] = None)

\* get_sub_index returned None for one requested path and a value for another.
C9_Witness ==
    /\ calls > 0
    /\ \E f, g \in DOMAIN sub_index :
        /\ f \notin DOMAIN DocOf(indexFile)
        /\ sub_index[f] = None
        /\ g \in DOMAIN DocOf(indexFile)

\* C10 as claimed: the value get_sub_index returns for a path that has an
\* entry is the summary of the entry alone.
C10_SummaryAlone ==
    calls > 0
    => \A f \in Requested \cap DOMAIN DocOf(indexFile) :
            sub_index[f] = DocOf(indexFile)[f].index

\* C10 as amended: the value get_sub_index returns for a path that has an
\* entry is the stored entry, the summary together with the digest.
C10_WholeEntry ==
    calls > 0
    => \A f \in Requested \cap DOMAIN DocOf(indexFile) :
            /\ sub_index[f] = DocOf(indexFile)[f]
            /\ sub_index[f].index = DocOf(indexFile)[f].index
            /\ sub_index[f].hash = DocOf(indexFile)[f].hash

\* get_sub_index returned a value for a path that has an entry.
C10_Witness ==
    /\ calls > 0
    /\ \E f \in Requested : f \in DOMAIN DocOf(indexFile) /\ f \in DOMAIN sub_index

\* C14: get_sub_index on a repository with no index file is no error: it
\* leaves the .mf directory in place, created if it was missing, loads the
\* empty document and maps every requested path to None.
C14_FirstRun ==
    (calls > 0 /\ ~indexFile.exists)
    => /\ mfDir
       /\ GetIndexJson = EmptyDoc
       /\ DOMAIN sub_index = Requested
       /\ \A f \in Requested : sub_index[f] = None

\* get_sub_index ran with no index file and created the .mf directory.
C14_Witness ==
    /\ calls > 0
    /\ ~indexFile.exists
    /\ sub_made_dir
    /\ mfDir
    /\ Cardinality(Requested) >= 2

\* C16: two update_file_index calls of two processes on different paths,
\* each of which got a summary, the first having loaded the index file
\* before the second saved and saving after it: both return normally, and
\* the index file then has the entry of the first and lacks the entry of
\* the second.
C16_LostUpdate ==
    (/\ pc = "idle" /\ peer.pc = "idle"
     /\ peer.overlap /\ peer.during = calls
     /\ peer.entry # None
     /\ hist # <<>>
     /\ hist[Len(hist)].stored # None
     /\ hist[Len(hist)].path # peer.path
     /\ peer.path \notin DOMAIN hist[Len(hist)].before)
    => /\ hist[Len(hist)].outcome = Returned
       /\ peer.outcome = Returned
       /\ DocOf(indexFile) = hist[Len(hist)].after
       /\ hist[Len(hist)].path \in DOMAIN DocOf(indexFile)
       /\ peer.path \notin DOMAIN DocOf(indexFile)

\* C17: a _get_index_json that runs after a _write_index_json(doc) began
\* on a well-formed index file, at whatever step the write stands, has
\* failed or was stopped, returns the document the file held before or doc.
C17_AtomicSave ==
    (loaded.at # "none" /\ ~IsPartial(save_old))
    => /\ loaded.raised = Returned
       /\ loaded.doc \in {DocOf(save_old), save_doc}

\* C18 as stated: generate_all_indexes calls update_file_index on the
\* elements of the list in list order, once each when it returns normally,
\* and the call for a path met earlier in the list makes no model call and
\* returns normally.
C18_DuplicateIsHit ==
    /\ Len(hist) <= Len(files)
    /\ \A k \in 1..Len(hist) : hist[k].path = files[k]
    /\ (BatchEnded /\ gai_raised = Returned) => Len(hist) = Len(files)
    /\ \A j, k \in 1..Len(hist) :
           (j < k /\ files[j] = files[k])
           => hist[k].responses = 0 /\ hist[k].outcome = Returned

\* C18, amended: the order and the absence of deduplication as stated, and
\* the call for a path met earlier in the list makes no model call, returns
\* normally and leaves the index file alone when force_reindex is false and
\* the earlier call for the path returned normally.
C18_OrderAndDuplicates ==
    /\ Len(hist) <= Len(files)
    /\ \A k \in 1..Len(hist) : hist[k].path = files[k] /\ hist[k].force = gai_force
    /\ (BatchEnded /\ gai_raised = Returned) => Len(hist) = Len(files)
    /\ \A j, k \in 1..Len(hist) :
           (j < k /\ files[j] = files[k] /\ ~gai_force /\ hist[j].outcome = Returned)
           => /\ hist[k].responses = 0
              /\ hist[k].outcome = Returned
              /\ hist[k].after = hist[k].before

\* A batch over A, B, A that returned normally: A was processed twice.
C18_Witness ==
    /\ BatchEnded
    /\ gai_raised = Returned
    /\ files = <<"A", "B", "A">>
    /\ Len(hist) = 3
    /\ hist[1].outcome = Returned
    /\ hist[3].path = "A"

\* C19: no step of an update_file_index call adds, removes or changes the
\* entry of a path other than the path of the call, whether the call hits,
\* regenerates or fails, and a get_sub_index call leaves the index file as
\* it is.
C19_Frame ==
    [][LET before == DocOf(indexFile)
           after == DocOf(indexFile')
       IN  /\ file_path # NoPath
              => \A q \in Paths \ {file_path} :
                     /\ q \in DOMAIN after <=> q \in DOMAIN before
                     /\ q \in DOMAIN before => after[q] = before[q]
           /\ (pc = "idle" /\ pc' = "idle") => after = before]_vars

\* An update_file_index call that got a summary has ended and a
\* get_sub_index call was made, on an index that has an entry for the other
\* path.
C19_Witness ==
    /\ pc = "idle"
    /\ sub_files # <<>>
    /\ \E r \in Ended :
           /\ r.stored # None
           /\ DOMAIN r.before \ {r.path} # {}
           /\ DOMAIN DocOf(indexFile) \ {r.path} # {}

\* The get_response calls of the update_file_index calls of h.
RECURSIVE TotalResponses(_)
TotalResponses(h) ==
    IF h = <<>> THEN 0 ELSE Head(h).responses + TotalResponses(Tail(h))

\* The update_file_index calls of the batch that changed the index file.
Writes == {k \in 1..Len(hist) : hist[k].after # hist[k].before}

\* C20: a generate_all_indexes call over n files makes at most
\* MAX_INDEX_RETRIES get_response calls for each element it processes and
\* at most MAX_INDEX_RETRIES * n in all, changes the index file at most n
\* times, and ends, by a return or by an exception.
C20_BoundedWork ==
    /\ [](/\ responses <= MAX_INDEX_RETRIES
          /\ \A r \in Ended : r.responses <= MAX_INDEX_RETRIES
          /\ Len(hist) <= Len(files)
          /\ TotalResponses(hist) + responses <= MAX_INDEX_RETRIES * Len(files)
          /\ Cardinality(Writes) <= Len(files))
    /\ (pc # "idle") ~> BatchEnded

\* A batch over a list of MaxFiles files has ended after MAX_INDEX_RETRIES
\* model calls for each of them.
C20_Witness ==
    /\ BatchEnded
    /\ Len(files) = MaxFiles
    /\ Len(hist) = Len(files)
    /\ TotalResponses(hist) = MAX_INDEX_RETRIES * Len(files)

====
